---- MODULE Spec2Model ----
(***************************************************************************)
(* The span tree of the trace viewer (viewer/src/span_tree.rs): the        *)
(* running index SpanTree, its ingestion entry point on_mesage and the     *)
(* queries span_name and span_ancestry; and the browser websocket client   *)
(* (ewebsock/src/web.rs): WsSender::send and the callbacks of ws_connect.  *)
(*                                                                         *)
(* An Option<T> is a sequence of length at most one: None is <<>> and      *)
(* Some(x) is <<x>>.  A HashMap is a function whose DOMAIN is the set of   *)
(* its keys, a HashSet is a set, a Vec is a sequence.                      *)
(***************************************************************************)
EXTENDS Integers, Sequences, FiniteSets, TLC

\* ------------------------------------------------------------------ bounds

\* Timestamps (log_time) are 1..MaxTime.
MaxTime == 2
\* The trees explored record at most MaxSize pieces of data (see Size).
MaxSize == 3

SpanIds == {1, 2}
Times == 1..MaxTime
\* on_mesage copies log_time into the tree and never reads a time back, so
\* the times a tree holds decide nothing.  The streams that build the trees
\* are stamped from StreamTimes; every statement about one call of on_mesage
\* is made for a message that carries any time of Times.
StreamTimes == {1}
CallsiteIds == {1}
CallsiteNames == {"A", "B"}
FieldValues == {"x"}

\* ----------------------------------------------------------------- options

None == <<>>
Some(x) == <<x>>
Option(S) == {None} \cup {Some(x) : x \in S}

\* ------------------------------------------------------------- entity model

\* rr_data::Callsite: the id and the display name (level and location are
\* read by the UI only).
Callsites == [id : CallsiteIds, name : CallsiteNames]

\* rr_data::Span
Spans == [id : SpanIds, parent_span_id : Option(SpanIds), callsite_id : CallsiteIds]

\* rr_data::DataEvent
DataEvents == [callsite_id : CallsiteIds, parent_span_id : Option(SpanIds), fields : FieldValues]

\* struct TimeInterval
TimeInterval(entered, exited) == [entered |-> entered, exited |-> exited]

\* rr_data::Message { log_time, msg_enum }, one set per variant of MessageEnum.
NewCallsiteMsgs == [log_time : Times, kind : {"NewCallsite"}, callsite : Callsites]
NewSpanMsgs == [log_time : Times, kind : {"NewSpan"}, span : Spans]
EnterSpanMsgs == [log_time : Times, kind : {"EnterSpan"}, span_id : SpanIds]
ExitSpanMsgs == [log_time : Times, kind : {"ExitSpan"}, span_id : SpanIds]
DestroySpanMsgs == [log_time : Times, kind : {"DestroySpan"}, span_id : SpanIds]
SpanFollowsFromMsgs == [log_time : Times, kind : {"SpanFollowsFrom"}, span : SpanIds, follows : SpanIds]
DataEventMsgs == [log_time : Times, kind : {"DataEvent"}, event : DataEvents]

Messages == NewCallsiteMsgs \cup NewSpanMsgs \cup EnterSpanMsgs \cup ExitSpanMsgs
              \cup DestroySpanMsgs \cup SpanFollowsFromMsgs \cup DataEventMsgs

\* -------------------------------------------------------------------- state

VARIABLES
    callsites,      \* SpanTree.callsites: HashMap<CallsiteId, Callsite>
    nodes,          \* SpanTree.nodes: HashMap<SpanId, SpanNode>
    roots,          \* SpanTree.roots: HashSet<SpanId>
    orphan_events,  \* SpanTree.orphan_events: Vec<(Time, DataEvent)>
    warnings        \* the tracing::warn! diagnostics of the last on_mesage call

vars == <<callsites, nodes, roots, orphan_events, warnings>>

\* The SpanTree value held in the variables.
Self == [callsites |-> callsites, nodes |-> nodes, roots |-> roots,
         orphan_events |-> orphan_events]

\* HashMap::insert
Insert(map, k, v) == [x \in DOMAIN map \cup {k} |-> IF x = k THEN v ELSE map[x]]

\* What one on_mesage call leaves: the tree and the diagnostics it emitted.
Outcome(self, ws) == [tree |-> self, warnings |-> ws]

\* ------------------------------------------------------- on_mesage, by arm

\* NewCallsite that keeps the callsite first registered under the id.
NewCallsite_keep_first(self, log_time, callsite) ==
    IF callsite.id \in DOMAIN self.callsites
    THEN Outcome(self, <<>>)
    ELSE Outcome([self EXCEPT !.callsites = Insert(self.callsites, callsite.id, callsite)], <<>>)

NewCallsite(self, log_time, callsite) ==
    Outcome([self EXCEPT !.callsites = Insert(self.callsites, callsite.id, callsite)], <<>>)

\* NewSpan that takes a reused id for a mistake: it removes the old node and
\* stores nothing in its place.
NewSpan_drop_reused(self, log_time, span) ==
    IF span.id \in DOMAIN self.nodes
    THEN Outcome([self EXCEPT !.nodes = [x \in DOMAIN self.nodes \ {span.id} |-> self.nodes[x]]],
                 <<"Reused span id">>)
    ELSE LET node == [span |-> span,
                      follows |-> None,
                      lifetime |-> TimeInterval(Some(log_time), None),
                      children |-> {},
                      intervals |-> <<>>,
                      events |-> <<>>]
             inserted == Insert(self.nodes, span.id, node)
         IN  IF span.parent_span_id # None
             THEN LET parent_span_id == span.parent_span_id[1] IN
                  IF parent_span_id \in DOMAIN inserted
                  THEN Outcome([self EXCEPT !.nodes =
                                   [inserted EXCEPT ![parent_span_id].children = @ \cup {span.id}]],
                               <<>>)
                  ELSE Outcome([self EXCEPT !.nodes = inserted], <<"Unknown parent span">>)
             ELSE Outcome([self EXCEPT !.nodes = inserted, !.roots = @ \cup {span.id}], <<>>)

\* NewSpan that, once the node is stored, also takes in the known spans that
\* were waiting for it as their parent.
NewSpan_adopt(self, log_time, span) ==
    LET prev == span.id \in DOMAIN self.nodes
        waiting == {s \in DOMAIN self.nodes : self.nodes[s].span.parent_span_id = Some(span.id)}
        node == [span |-> span,
                 follows |-> None,
                 lifetime |-> TimeInterval(Some(log_time), None),
                 children |-> waiting,
                 intervals |-> <<>>,
                 events |-> <<>>]
        inserted == Insert(self.nodes, span.id, node)
        w == IF prev THEN <<"Reused span id">> ELSE <<>>
    IN  IF span.parent_span_id # None
        THEN LET parent_span_id == span.parent_span_id[1] IN
             IF parent_span_id \in DOMAIN inserted
             THEN Outcome([self EXCEPT !.nodes =
                              [inserted EXCEPT ![parent_span_id].children = @ \cup {span.id}]], w)
             ELSE Outcome([self EXCEPT !.nodes = inserted], w \o <<"Unknown parent span">>)
        ELSE Outcome([self EXCEPT !.nodes = inserted, !.roots = @ \cup {span.id}], w)

\* NewSpan that makes a root of the parent it does not know.
NewSpan_parent_to_roots(self, log_time, span) ==
    LET prev == span.id \in DOMAIN self.nodes
        node == [span |-> span,
                 follows |-> None,
                 lifetime |-> TimeInterval(Some(log_time), None),
                 children |-> {},
                 intervals |-> <<>>,
                 events |-> <<>>]
        inserted == Insert(self.nodes, span.id, node)
        w == IF prev THEN <<"Reused span id">> ELSE <<>>
    IN  IF span.parent_span_id # None
        THEN LET parent_span_id == span.parent_span_id[1] IN
             IF parent_span_id \in DOMAIN inserted
             THEN Outcome([self EXCEPT !.nodes =
                              [inserted EXCEPT ![parent_span_id].children = @ \cup {span.id}]], w)
             ELSE Outcome([self EXCEPT !.nodes = inserted, !.roots = @ \cup {parent_span_id}],
                          w \o <<"Unknown parent span">>)
        ELSE Outcome([self EXCEPT !.nodes = inserted, !.roots = @ \cup {span.id}], w)

NewSpan(self, log_time, span) ==
    LET prev == span.id \in DOMAIN self.nodes
        node == [span |-> span,
                 follows |-> None,
                 lifetime |-> TimeInterval(Some(log_time), None),
                 children |-> {},
                 intervals |-> <<>>,
                 events |-> <<>>]
        inserted == Insert(self.nodes, span.id, node)
        w == IF prev THEN <<"Reused span id">> ELSE <<>>
    IN  IF span.parent_span_id # None
        THEN LET parent_span_id == span.parent_span_id[1] IN
             IF parent_span_id \in DOMAIN inserted
             THEN Outcome([self EXCEPT !.nodes =
                              [inserted EXCEPT ![parent_span_id].children = @ \cup {span.id}]], w)
             ELSE Outcome([self EXCEPT !.nodes = inserted], w \o <<"Unknown parent span">>)
        ELSE Outcome([self EXCEPT !.nodes = inserted, !.roots = @ \cup {span.id}], w)

\* EnterSpan that assigns the interval list where it should push to it.
EnterSpan_assign(self, log_time, span_id) ==
    IF span_id \in DOMAIN self.nodes
    THEN Outcome([self EXCEPT !.nodes[span_id].intervals =
                      <<TimeInterval(Some(log_time), None)>>], <<>>)
    ELSE Outcome(self, <<"Opened unknown span">>)

\* EnterSpan that creates a node for an id it does not know.
EnterSpan_create(self, log_time, span_id) ==
    IF span_id \in DOMAIN self.nodes
    THEN Outcome([self EXCEPT !.nodes[span_id].intervals =
                     Append(@, TimeInterval(Some(log_time), None))], <<>>)
    ELSE Outcome([self EXCEPT !.nodes = Insert(self.nodes, span_id,
                     [span |-> [id |-> span_id, parent_span_id |-> None,
                                callsite_id |-> CHOOSE c \in CallsiteIds : TRUE],
                      follows |-> None,
                      lifetime |-> TimeInterval(None, None),
                      children |-> {},
                      intervals |-> <<TimeInterval(Some(log_time), None)>>,
                      events |-> <<>>])],
                 <<>>)

EnterSpan(self, log_time, span_id) ==
    IF span_id \in DOMAIN self.nodes
    THEN Outcome([self EXCEPT !.nodes[span_id].intervals =
                      Append(@, TimeInterval(Some(log_time), None))], <<>>)
    ELSE Outcome(self, <<"Opened unknown span">>)

\* ExitSpan with the last interval taken by unwrap(): it panics on a span
\* that was never entered.
ExitSpan_unwrap(self, log_time, span_id) ==
    IF span_id \in DOMAIN self.nodes /\ self.nodes[span_id].intervals = <<>>
    THEN Outcome([panic |-> "unwrap on None"], <<>>)
    ELSE IF span_id \in DOMAIN self.nodes
    THEN LET intervals == self.nodes[span_id].intervals IN
         IF intervals[Len(intervals)].exited = None
         THEN Outcome([self EXCEPT !.nodes[span_id].intervals[Len(intervals)].exited =
                           Some(log_time)], <<>>)
         ELSE Outcome([self EXCEPT !.nodes[span_id].intervals =
                           Append(@, TimeInterval(None, Some(log_time)))],
                      <<"Exited span that was never opened">>)
    ELSE Outcome(self, <<"Exited unknown span">>)

\* ExitSpan that never closes an interval: it always pushes an interval with
\* no start.
ExitSpan_push(self, log_time, span_id) ==
    IF span_id \in DOMAIN self.nodes
    THEN Outcome([self EXCEPT !.nodes[span_id].intervals =
                      Append(@, TimeInterval(None, Some(log_time)))],
                 <<"Exited span that was never opened">>)
    ELSE Outcome(self, <<"Exited unknown span">>)

\* ExitSpan that closes the first open interval (first_mut) where it should
\* close the last.
ExitSpan_first(self, log_time, span_id) ==
    IF span_id \in DOMAIN self.nodes
    THEN LET intervals == self.nodes[span_id].intervals
             open == {i \in DOMAIN intervals : intervals[i].exited = None}
         IN  IF open # {}
             THEN LET first == CHOOSE i \in open : \A j \in open : i <= j IN
                  Outcome([self EXCEPT !.nodes[span_id].intervals[first].exited =
                               Some(log_time)], <<>>)
             ELSE Outcome([self EXCEPT !.nodes[span_id].intervals =
                               Append(@, TimeInterval(None, Some(log_time)))],
                          <<"Exited span that was never opened">>)
    ELSE Outcome(self, <<"Exited unknown span">>)

\* ExitSpan that writes the time into the last interval whether or not that
\* interval already has an end.
ExitSpan_overwrite(self, log_time, span_id) ==
    IF span_id \in DOMAIN self.nodes
    THEN LET intervals == self.nodes[span_id].intervals IN
         IF intervals # <<>>
         THEN Outcome([self EXCEPT !.nodes[span_id].intervals[Len(intervals)].exited =
                          Some(log_time)], <<>>)
         ELSE Outcome([self EXCEPT !.nodes[span_id].intervals =
                          Append(@, TimeInterval(None, Some(log_time)))],
                      <<"Exited span that was never opened">>)
    ELSE Outcome(self, <<"Exited unknown span">>)

ExitSpan(self, log_time, span_id) ==
    IF span_id \in DOMAIN self.nodes
    THEN LET intervals == self.nodes[span_id].intervals IN
         IF intervals # <<>>
         THEN IF intervals[Len(intervals)].exited = None
              THEN Outcome([self EXCEPT !.nodes[span_id].intervals[Len(intervals)].exited =
                                Some(log_time)], <<>>)
              ELSE Outcome([self EXCEPT !.nodes[span_id].intervals =
                                Append(@, TimeInterval(None, Some(log_time)))],
                           <<"Exited span that was never opened">>)
         ELSE Outcome([self EXCEPT !.nodes[span_id].intervals =
                           Append(@, TimeInterval(None, Some(log_time)))],
                      <<"Exited span that was never opened">>)
    ELSE Outcome(self, <<"Exited unknown span">>)

DestroySpan(self, log_time, span_id) ==
    IF span_id \in DOMAIN self.nodes
    THEN Outcome([self EXCEPT !.nodes[span_id].lifetime.exited = Some(log_time)],
                 IF self.nodes[span_id].lifetime.exited # None
                 THEN <<"Destroying a span twice">> ELSE <<>>)
    ELSE Outcome(self, <<"Destroying unknown span">>)

SpanFollowsFrom(self, log_time, span, follows) ==
    IF span \in DOMAIN self.nodes
    THEN Outcome([self EXCEPT !.nodes[span].follows = Some(follows)],
                 IF self.nodes[span].follows # None
                 THEN <<"Span follows multiple spans">> ELSE <<>>)
    ELSE Outcome(self, <<"Unknown span">>)

\* DataEvent that keeps the event of an unknown span with the orphans.
DataEvent_unknown_to_orphans(self, log_time, event) ==
    IF event.parent_span_id # None /\ event.parent_span_id[1] \in DOMAIN self.nodes
    THEN Outcome([self EXCEPT !.nodes[event.parent_span_id[1]].events =
                      Append(@, <<log_time, event>>)], <<>>)
    ELSE Outcome([self EXCEPT !.orphan_events = Append(@, <<log_time, event>>)],
                 IF event.parent_span_id # None
                 THEN <<"Event with unknown span">> ELSE <<>>)

\* DataEvent that puts the new event first in the list it belongs to.
DataEvent_prepend(self, log_time, event) ==
    IF event.parent_span_id # None
    THEN LET span_id == event.parent_span_id[1] IN
         IF span_id \in DOMAIN self.nodes
         THEN Outcome([self EXCEPT !.nodes[span_id].events = <<<<log_time, event>>>> \o @], <<>>)
         ELSE Outcome(self, <<"Event with unknown span">>)
    ELSE Outcome([self EXCEPT !.orphan_events = <<<<log_time, event>>>> \o @], <<>>)

DataEvent(self, log_time, event) ==
    IF event.parent_span_id # None
    THEN LET span_id == event.parent_span_id[1] IN
         IF span_id \in DOMAIN self.nodes
         THEN Outcome([self EXCEPT !.nodes[span_id].events = Append(@, <<log_time, event>>)], <<>>)
         ELSE Outcome(self, <<"Event with unknown span">>)
    ELSE Outcome([self EXCEPT !.orphan_events = Append(@, <<log_time, event>>)], <<>>)

\* SpanTree::on_mesage: the match on msg_enum.
on_mesage(self, message) ==
    CASE message.kind = "NewCallsite" -> NewCallsite(self, message.log_time, message.callsite)
      [] message.kind = "NewSpan" -> NewSpan(self, message.log_time, message.span)
      [] message.kind = "EnterSpan" -> EnterSpan(self, message.log_time, message.span_id)
      [] message.kind = "ExitSpan" -> ExitSpan(self, message.log_time, message.span_id)
      [] message.kind = "DestroySpan" -> DestroySpan(self, message.log_time, message.span_id)
      [] message.kind = "SpanFollowsFrom" ->
             SpanFollowsFrom(self, message.log_time, message.span, message.follows)
      [] message.kind = "DataEvent" -> DataEvent(self, message.log_time, message.event)

\* ------------------------------------------------------------------ queries

\* to_string() of a SpanId
IdText(span_id) == <<"1", "2">>[span_id]

\* SpanTree::span_name
span_name(self, span_id) ==
    IF span_id \in DOMAIN self.nodes
    THEN LET node == self.nodes[span_id] IN
         IF node.span.callsite_id \in DOMAIN self.callsites
         THEN self.callsites[node.span.callsite_id].name
         ELSE IdText(span_id)
    ELSE IdText(span_id)

\* The condition of span_ancestry's while let: the parent of a known span.
ParentOf(self, current) ==
    IF current \in DOMAIN self.nodes THEN self.nodes[current].span.parent_span_id ELSE None

\* The loop reads the tree and `current` only, and every `current` is a span
\* id: an iteration that follows WalkFuel earlier ones has met some id twice
\* and the loop, the tree being the same, goes round for ever.
WalkFuel == Cardinality(SpanIds)

\* The while let loop of span_ancestry from `current`, with `ancestry` pushed
\* so far: the vector it ends with, or that it does not end.
RECURSIVE AncestryLoop(_, _, _, _)
AncestryLoop(self, current, ancestry, fuel) ==
    LET parent == ParentOf(self, current) IN
    IF parent = None THEN [terminates |-> TRUE, ancestry |-> ancestry]
    ELSE IF fuel = 0 THEN [terminates |-> FALSE, ancestry |-> ancestry]
    ELSE AncestryLoop(self, parent[1], Append(ancestry, span_name(self, parent[1])), fuel - 1)

\* ancestry.iter().rev().join(sep)
RECURSIVE RevJoin(_, _)
RevJoin(names, sep) ==
    IF Len(names) = 1 THEN names[1]
    ELSE names[Len(names)] \o sep \o RevJoin(SubSeq(names, 1, Len(names) - 1), sep)

\* names[1] sep names[2] sep ... names[n]
RECURSIVE JoinNames(_, _)
JoinNames(names, sep) ==
    IF Len(names) = 1 THEN names[1]
    ELSE names[1] \o sep \o JoinNames(Tail(names), sep)

\* span_ancestry with the vector joined in the order it was pushed.
span_ancestry_unreversed(self, span_id) ==
    LET walk == AncestryLoop(self, span_id, <<span_name(self, span_id)>>, WalkFuel) IN
    IF walk.terminates
    THEN [terminates |-> TRUE, text |-> JoinNames(walk.ancestry, " ➡ ")]
    ELSE [terminates |-> FALSE]

\* SpanTree::span_ancestry: whether the call returns, and the text it returns.
span_ancestry(self, span_id) ==
    LET walk == AncestryLoop(self, span_id, <<span_name(self, span_id)>>, WalkFuel) IN
    IF walk.terminates
    THEN [terminates |-> TRUE, text |-> RevJoin(walk.ancestry, " ➡ ")]
    ELSE [terminates |-> FALSE]

\* The spans tree_ui shows: tree_node_ui for each root, which shows a known
\* span and goes on, through tree_node_ui_impl, to each of its children.
RECURSIVE TreeVisit(_, _, _)
TreeVisit(self, todo, seen) ==
    IF todo = {} THEN seen
    ELSE LET span_id == CHOOSE s \in todo : TRUE IN
         IF span_id \in seen \/ span_id \notin DOMAIN self.nodes
         THEN TreeVisit(self, todo \ {span_id}, seen)
         ELSE TreeVisit(self, (todo \ {span_id}) \cup self.nodes[span_id].children,
                        seen \cup {span_id})

\* SpanTree::tree_ui: the spans the traversal from roots visits.
Visited(self) == TreeVisit(self, self.roots, {})

\* ------------------------------------------------- the websocket client

\* The message events the socket delivers in a stream that is explored.
MaxMessages == 3

VARIABLES
    ready_state,    \* the WebSocket: "CONNECTING", "OPEN" or "CLOSED"
    binary_type,    \* the WebSocket's binaryType
    received,       \* the message events delivered to onmessage_callback so far
    reading,        \* the messages whose FileReader has not fired loadend yet
    events          \* the calls of on_event so far, in order

ws_vars == <<ready_state, binary_type, received, reading, events>>

\* WsEvent::Message(..) for the message event number seq
Message(msg, seq) == [event |-> "Message", msg |-> msg, seq |-> seq]

\* ws_connect: the socket is created, its binary type set, the callbacks
\* registered; on_event has not been called.
ws_connect ==
    /\ ready_state = "CONNECTING"
    /\ binary_type = "arraybuffer"
    /\ received = 0
    /\ reading = {}
    /\ events = <<>>

\* WsSender::send.  Sending a Binary message sets the binary type to Blob;
\* what goes out to the server is not part of the state.
send ==
    \E msg \in {"Binary", "Text"} :
        /\ binary_type' = IF msg = "Binary" THEN "blob" ELSE binary_type
        /\ UNCHANGED <<ready_state, received, reading, events>>
        /\ UNCHANGED vars

\* The socket opens.
onopen_callback ==
    /\ ready_state = "CONNECTING"
    /\ ready_state' = "OPEN"
    /\ events' = Append(events, [event |-> "Opened"])
    /\ UNCHANGED <<binary_type, received, reading>>
    /\ UNCHANGED vars

\* The socket fails, and is closed by the browser.
onerror_callback ==
    /\ ready_state # "CLOSED"
    /\ ready_state' = "CLOSED"
    /\ events' = Append(events, [event |-> "Error"])
    /\ UNCHANGED <<binary_type, received, reading>>
    /\ UNCHANGED vars

\* The open socket delivers its next message event: a text frame as a
\* string, a binary frame as the binary type of the moment says.  An
\* ArrayBuffer and a string are handed to on_event before the callback
\* returns; for a Blob the callback starts a FileReader and returns.
onmessage_callback ==
    \E frame \in {"Text", "Binary"} :
        LET seq == received + 1
            data == IF frame = "Text" THEN "JsString"
                    ELSE IF binary_type = "arraybuffer" THEN "ArrayBuffer" ELSE "Blob"
        IN  /\ ready_state = "OPEN"
            /\ received < MaxMessages
            /\ received' = seq
            /\ IF data = "ArrayBuffer"
               THEN events' = Append(events, Message("Binary", seq)) /\ UNCHANGED reading
               ELSE IF data = "Blob"
               THEN reading' = reading \cup {seq} /\ UNCHANGED events
               ELSE events' = Append(events, Message("Text", seq)) /\ UNCHANGED reading
            /\ UNCHANGED <<ready_state, binary_type>>
            /\ UNCHANGED vars

\* One of the FileReaders fires loadend.  Each Blob has a reader of its own
\* and nothing in the code orders the readers, so any of them may be next.
onloadend_cb ==
    \E seq \in reading :
        /\ reading' = reading \ {seq}
        /\ events' = Append(events, Message("Binary", seq))
        /\ UNCHANGED <<ready_state, binary_type, received>>
        /\ UNCHANGED vars

WsNext ==
    \/ send
    \/ onopen_callback
    \/ onerror_callback
    \/ onmessage_callback
    \/ onloadend_cb

\* ------------------------------------------------------------ the machine

\* What one node records: itself, its vector entries and its set options.
NodeSize(node) ==
    1 + Len(node.intervals) + Len(node.events) + Len(node.follows) + Len(node.lifetime.exited)

\* The pieces the nodes `todo` record together.
RECURSIVE NodesSize(_, _)
NodesSize(self, todo) ==
    IF todo = {} THEN 0
    ELSE LET s == CHOOSE x \in todo : TRUE IN
         NodeSize(self.nodes[s]) + NodesSize(self, todo \ {s})

\* The number of pieces of data a tree records: callsites, nodes with their
\* entries, orphan events.
Size(self) ==
    Cardinality(DOMAIN self.callsites) + Len(self.orphan_events)
      + NodesSize(self, DOMAIN self.nodes)

\* SpanTree::default(), and the socket as ws_connect returns it
Init ==
    /\ callsites = <<>>
    /\ nodes = <<>>
    /\ roots = {}
    /\ orphan_events = <<>>
    /\ warnings = <<>>
    /\ ws_connect

\* One call of on_mesage that leaves the tree within MaxSize.
Ingest(message) ==
    LET out == on_mesage(Self, message) IN
    /\ Size(out.tree) <= MaxSize
    /\ callsites' = out.tree.callsites
    /\ nodes' = out.tree.nodes
    /\ roots' = out.tree.roots
    /\ orphan_events' = out.tree.orphan_events
    /\ warnings' = out.warnings
    /\ UNCHANGED ws_vars

\* The caller feeds one message of the stream, of one kind each.
OnNewCallsite == \E m \in NewCallsiteMsgs : m.log_time \in StreamTimes /\ Ingest(m)
OnNewSpan == \E m \in NewSpanMsgs : m.log_time \in StreamTimes /\ Ingest(m)
OnEnterSpan == \E m \in EnterSpanMsgs : m.log_time \in StreamTimes /\ Ingest(m)
OnExitSpan == \E m \in ExitSpanMsgs : m.log_time \in StreamTimes /\ Ingest(m)
OnDestroySpan == \E m \in DestroySpanMsgs : m.log_time \in StreamTimes /\ Ingest(m)
OnSpanFollowsFrom == \E m \in SpanFollowsFromMsgs : m.log_time \in StreamTimes /\ Ingest(m)
OnDataEvent == \E m \in DataEventMsgs : m.log_time \in StreamTimes /\ Ingest(m)

Next ==
    \/ OnNewCallsite
    \/ OnNewSpan
    \/ OnEnterSpan
    \/ OnExitSpan
    \/ OnDestroySpan
    \/ OnSpanFollowsFrom
    \/ OnDataEvent

Spec == Init /\ [][Next]_vars

\* The websocket client alone, its callbacks run one at a time by the
\* browser's event loop in any order the guards allow.
WsSpec == Init /\ [][WsNext]_ws_vars

\* ------------------------------------------------------------------ shapes

IsOption(o, S) == o = None \/ (Len(o) = 1 /\ o[1] \in S)

IsTimeInterval(i) ==
    /\ DOMAIN i = {"entered", "exited"}
    /\ IsOption(i.entered, Times)
    /\ IsOption(i.exited, Times)

IsTimedEvent(e) == Len(e) = 2 /\ e[1] \in Times /\ e[2] \in DataEvents

IsSpanNode(n) ==
    /\ DOMAIN n = {"span", "follows", "lifetime", "children", "intervals", "events"}
    /\ n.span \in Spans
    /\ IsOption(n.follows, SpanIds)
    /\ IsTimeInterval(n.lifetime)
    /\ n.children \subseteq SpanIds
    /\ \A i \in DOMAIN n.intervals : IsTimeInterval(n.intervals[i])
    /\ \A i \in DOMAIN n.events : IsTimedEvent(n.events[i])

\* A value of type SpanTree.
IsSpanTree(t) ==
    /\ DOMAIN t = {"callsites", "nodes", "roots", "orphan_events"}
    /\ DOMAIN t.callsites \subseteq CallsiteIds
    /\ \A c \in DOMAIN t.callsites : t.callsites[c] \in Callsites /\ t.callsites[c].id = c
    /\ DOMAIN t.nodes \subseteq SpanIds
    /\ \A s \in DOMAIN t.nodes : IsSpanNode(t.nodes[s]) /\ t.nodes[s].span.id = s
    /\ t.roots \subseteq SpanIds
    /\ \A i \in DOMAIN t.orphan_events : IsTimedEvent(t.orphan_events[i])

\* The diagnostics on_mesage emits.
Diagnostics ==
    {"Reused span id", "Unknown parent span", "Opened unknown span",
     "Exited span that was never opened", "Exited unknown span",
     "Destroying a span twice", "Destroying unknown span",
     "Span follows multiple spans", "Unknown span", "Event with unknown span"}

\* ------------------------------------------------------------------ claims

\* C1: ingestion is total.  In every reachable state, on_mesage accepts each
\* message of each of the seven kinds, with any ids and any timestamp: the
\* call returns, leaves a well-formed SpanTree and emits only diagnostics.
C1_IngestionTotal ==
    \A m \in Messages :
        LET out == on_mesage(Self, m) IN
        /\ IsSpanTree(out.tree)
        /\ \A i \in DOMAIN out.warnings : out.warnings[i] \in Diagnostics

\* A duplicate id that names an unknown parent has been ingested, and the
\* tree is well formed.
C1_Witness ==
    /\ warnings = <<"Reused span id", "Unknown parent span">>
    /\ IsSpanTree(Self)

\* C2: span_ancestry(id) terminates for every span id in every reachable
\* state, also when parent references form a cycle.
C2_AncestryTerminates ==
    \A span_id \in SpanIds : span_ancestry(Self, span_id).terminates
\* C3: replace on reuse.  After a NewSpan at time t for an id S that is
\* already present, the node stored for S is fresh: no intervals, no events,
\* no children, no follows, lifetime from t and not ended.
C3_ReplaceOnReuse ==
    \A m \in NewSpanMsgs :
        m.span.id \in DOMAIN nodes =>
            LET node == on_mesage(Self, m).tree.nodes[m.span.id] IN
            /\ node.intervals = <<>>
            /\ node.events = <<>>
            /\ node.children = {}
            /\ node.follows = None
            /\ node.lifetime = TimeInterval(Some(m.log_time), None)

\* The intervals of a node that have no end.
Open(node) == {i \in DOMAIN node.intervals : node.intervals[i].exited = None}

\* No interval but the last is open.
OpenOnlyLast(node) == Open(node) \subseteq {Len(node.intervals)}

\* An EnterSpan for a known span whose last interval is still open.
NestedEnter(self, m, s) ==
    /\ m.kind = "EnterSpan"
    /\ m.span_id = s
    /\ s \in DOMAIN self.nodes
    /\ Len(self.nodes[s].intervals) \in Open(self.nodes[s])

C5_ExitClosesLast ==
    \A m \in ExitSpanMsgs :
        LET s == m.span_id IN
        (s \in DOMAIN nodes /\ Len(nodes[s].intervals) \in Open(nodes[s])) =>
            LET before == nodes[s].intervals
                after == on_mesage(Self, m).tree.nodes[s].intervals
                n == Len(before)
            IN  /\ Len(after) = n
                /\ after[n].exited = Some(m.log_time)
                /\ after[n].entered = before[n].entered
                /\ \A i \in 1..(n - 1) : after[i] = before[i]

\* An ExitSpan has closed the second interval of a span whose first interval
\* is still open.
C5_Witness ==
    \E s \in DOMAIN nodes :
        /\ Len(nodes[s].intervals) = 2
        /\ Open(nodes[s]) = {1}
        /\ nodes[s].intervals[2].entered # None
        /\ warnings = <<>>

\* `a` is a prefix of `b`.
IsPrefix(a, b) == Len(a) <= Len(b) /\ \A i \in DOMAIN a : b[i] = a[i]

\* C6, as claimed: no message removes recorded data.  For every message, each
\* node's interval list and event list extend the lists before it, its
\* children set is a superset, and the orphan list is only appended to.
C6_NoDataRemoved ==
    \A m \in Messages :
        LET after == on_mesage(Self, m).tree IN
        /\ IsPrefix(orphan_events, after.orphan_events)
        /\ \A s \in DOMAIN nodes :
               /\ s \in DOMAIN after.nodes
               /\ IsPrefix(nodes[s].intervals, after.nodes[s].intervals)
               /\ IsPrefix(nodes[s].events, after.nodes[s].events)
               /\ nodes[s].children \subseteq after.nodes[s].children

\* `b` keeps the intervals of `a` in place, but that the last one of `a`, if
\* it had no end, may have got the end `exited`.
KeepsIntervals(a, b, exited) ==
    /\ Len(a) <= Len(b)
    /\ \A i \in DOMAIN a :
           \/ b[i] = a[i]
           \/ i = Len(a) /\ a[i].exited = None /\ b[i] = [a[i] EXCEPT !.exited = exited]

\* C6, amended: no message removes recorded data, but for two things.  A
\* NewSpan for an id S that is already present replaces the node of S: its
\* intervals and events are discarded and its children set starts again.  An
\* ExitSpan for a span whose last interval is open sets the end of that
\* interval in place.  For every other message and node, the interval list
\* and the event list extend the lists before it and the children set is a
\* superset; the orphan list is only ever appended to.
C6_NoDataRemovedButByReuse ==
    \A m \in Messages :
        LET after == on_mesage(Self, m).tree IN
        /\ IsPrefix(orphan_events, after.orphan_events)
        /\ \A s \in DOMAIN nodes :
               /\ s \in DOMAIN after.nodes
               /\ IF m.kind = "NewSpan" /\ m.span.id = s
                  THEN /\ after.nodes[s].intervals = <<>>
                       /\ after.nodes[s].events = <<>>
                       /\ after.nodes[s].children \subseteq {s}
                  ELSE /\ IsPrefix(nodes[s].events, after.nodes[s].events)
                       /\ nodes[s].children \subseteq after.nodes[s].children
                       /\ IF m.kind = "ExitSpan" /\ m.span_id = s
                          THEN KeepsIntervals(nodes[s].intervals, after.nodes[s].intervals,
                                              Some(m.log_time))
                          ELSE IsPrefix(nodes[s].intervals, after.nodes[s].intervals)

\* A span id has been reused while another span holds a closed interval.
C6_Witness ==
    /\ "Reused span id" \in {warnings[i] : i \in DOMAIN warnings}
    /\ \E s \in DOMAIN nodes :
           nodes[s].intervals # <<>> /\ Open(nodes[s]) = {}

\* C7: the ids only grow.  Across every ingested message the set of known
\* callsite ids and the set of known span ids are supersets of what they
\* were, also for a NewCallsite or NewSpan that reuses an id.
C7_IdsOnlyGrow ==
    [][DOMAIN callsites \subseteq DOMAIN callsites' /\ DOMAIN nodes \subseteq DOMAIN nodes']_vars

\* A span id has been reused, with a callsite and another span known.
C7_Witness ==
    /\ warnings = <<"Reused span id">>
    /\ DOMAIN callsites = CallsiteIds
    /\ DOMAIN nodes = SpanIds

\* C8: roots and children partition the placed spans.  No span id is both in
\* roots and in a children set, none is in the children sets of two nodes,
\* and every id in roots is a span whose current definition has no parent.
C8_RootsChildrenPartition ==
    /\ \A s \in roots : \A p \in DOMAIN nodes : s \notin nodes[p].children
    /\ \A p, q \in DOMAIN nodes : p # q => nodes[p].children \cap nodes[q].children = {}
    /\ \A s \in roots : s \in DOMAIN nodes /\ nodes[s].span.parent_span_id = None

\* C9: an unresolvable parent excludes from roots.  A span whose current
\* definition names a parent that no NewSpan ever created is in no children
\* set and not in roots, and the traversal from roots never visits it.
C9_UnresolvableParentUnplaced ==
    \A s \in DOMAIN nodes :
        LET parent == nodes[s].span.parent_span_id IN
        (parent # None /\ parent[1] \notin DOMAIN nodes) =>
            /\ s \notin roots
            /\ \A p \in DOMAIN nodes : s \notin nodes[p].children
            /\ s \notin Visited(Self)

\* C10: orphan and dropped events.  A DataEvent with no parent is appended to
\* the orphan list and to no node.  A DataEvent whose parent is not a known
\* span changes nothing in the tree, and a NewSpan that creates this span
\* afterwards starts it with no event.
C10_OrphanVsDropped ==
    \A m \in DataEventMsgs :
        LET after == on_mesage(Self, m).tree
            parent == m.event.parent_span_id
        IN  /\ parent = None =>
                   /\ after.orphan_events = Append(orphan_events, <<m.log_time, m.event>>)
                   /\ after.nodes = nodes
            /\ (parent # None /\ parent[1] \notin DOMAIN nodes) =>
                   /\ after = Self
                   /\ \A c \in NewSpanMsgs :
                          c.span.id = parent[1] =>
                              LET later == on_mesage(after, c).tree IN
                              /\ later.nodes[parent[1]].events = <<>>
                              /\ later.orphan_events = orphan_events

\* An event of an unknown span has just been dropped, and an earlier event
\* with no parent is in the orphan list.
C10_Witness ==
    /\ warnings = <<"Event with unknown span">>
    /\ orphan_events # <<>>
    /\ \A s \in DOMAIN nodes : nodes[s].events = <<>>

\* ----------------------------------------------------- claims on the queries

\* The chain id, parent(id), parent(parent(id)), ... read from the
\* parent_span_id fields alone, outermost ancestor first, as far as `fuel`
\* ancestors up.
RECURSIVE ChainRootFirst(_, _, _)
ChainRootFirst(self, span_id, fuel) ==
    IF span_id \in DOMAIN self.nodes /\ self.nodes[span_id].span.parent_span_id # None /\ fuel > 0
    THEN Append(ChainRootFirst(self, self.nodes[span_id].span.parent_span_id[1], fuel - 1), span_id)
    ELSE <<span_id>>

\* The chain from span_id meets no id twice, and ends within the ids there are.
AcyclicChain(self, span_id) ==
    LET chain == ChainRootFirst(self, span_id, Cardinality(SpanIds)) IN
    /\ \A i, j \in 1..Len(chain) : chain[i] = chain[j] => i = j
    /\ ParentOf(self, chain[1]) = None

\* C11: ancestry rendering.  For every span id whose parent chain is acyclic,
\* span_ancestry returns the span_name of each id of the chain id, parent(id),
\* ... up to the first id with no parent or not a known span, that one
\* included, outermost ancestor first and joined by " ➡ "; the follows link
\* plays no part.
C11_AncestryRootFirst ==
    \A id \in SpanIds :
        AcyclicChain(Self, id) =>
            LET chain == ChainRootFirst(Self, id, Cardinality(SpanIds))
                answer == span_ancestry(Self, id)
            IN  /\ answer.terminates
                /\ answer.text = JoinNames([i \in 1..Len(chain) |-> span_name(Self, chain[i])], " ➡ ")

\* Span 2 is a child of span 1, no callsite is registered, and span 2 follows
\* itself: its ancestry reads "1 ➡ 2".
C11_Witness ==
    /\ DOMAIN nodes = {1, 2}
    /\ nodes[2].span.parent_span_id = Some(1)
    /\ nodes[1].span.parent_span_id = None
    /\ nodes[2].follows = Some(2)
    /\ AcyclicChain(Self, 2)
    /\ span_ancestry(Self, 2) = [terminates |-> TRUE, text |-> "1 ➡ 2"]

\* The texts to_string() gives for the span ids.
IdTexts == {IdText(s) : s \in SpanIds}

\* C12: span_name never fails: it returns a name or an id text for any id.
\* Right after a NewCallsite is ingested, every known span of that callsite id
\* has the name this message carries, whatever was registered before; a span
\* that is unknown, or whose callsite id is not registered, has the text of
\* its own id.
C12_NameOfLatestCallsite ==
    /\ \A id \in SpanIds :
           /\ span_name(Self, id) \in CallsiteNames \cup IdTexts
           /\ id \notin DOMAIN nodes => span_name(Self, id) = IdText(id)
           /\ (id \in DOMAIN nodes /\ nodes[id].span.callsite_id \notin DOMAIN callsites) =>
                  span_name(Self, id) = IdText(id)
           /\ (id \in DOMAIN nodes /\ nodes[id].span.callsite_id \in DOMAIN callsites) =>
                  span_name(Self, id) \in CallsiteNames
    /\ \A m \in NewCallsiteMsgs :
           LET after == on_mesage(Self, m).tree IN
           \A id \in DOMAIN nodes :
               nodes[id].span.callsite_id = m.callsite.id =>
                   span_name(after, id) = m.callsite.name

\* A span is known whose callsite is registered under the name "A", so that
\* a NewCallsite with the name "B" renames it; the other span id is unknown.
C12_Witness ==
    /\ DOMAIN nodes = {1}
    /\ nodes[1].span.callsite_id \in DOMAIN callsites
    /\ span_name(Self, 1) = "A"
    /\ span_name(Self, 2) = "2"

\* ------------------------------------------------ claims on ingestion, again

\* The span an EnterSpan, ExitSpan, DestroySpan or SpanFollowsFrom is about.
TargetMsgs == EnterSpanMsgs \cup ExitSpanMsgs \cup DestroySpanMsgs \cup SpanFollowsFromMsgs
Target(m) == IF m.kind = "SpanFollowsFrom" THEN m.span ELSE m.span_id

\* C14: an EnterSpan, ExitSpan, DestroySpan or SpanFollowsFrom whose target
\* is not a known span leaves callsites, nodes, roots and orphan_events as
\* they were, and so creates no node; it only warns.
C14_UnknownTargetNoOp ==
    \A m \in TargetMsgs :
        Target(m) \notin DOMAIN nodes =>
            LET out == on_mesage(Self, m) IN
            /\ out.tree = Self
            /\ out.warnings # <<>>

\* A message about the unknown span 2 has just been refused, while span 1 is
\* known and has an open interval.
C14_Witness ==
    /\ DOMAIN nodes = {1}
    /\ nodes[1].intervals # <<>>
    /\ warnings \in {<<"Opened unknown span">>, <<"Exited unknown span">>,
                     <<"Destroying unknown span">>, <<"Unknown span">>}

\* C15, as claimed: a span whose declared parent is a known span that the
\* traversal from roots visits is in the children set of that parent, and the
\* traversal visits it too, also when the parent was created after the span.
C15_ReachableOnceParentAppears ==
    \A s \in DOMAIN nodes :
        LET parent == nodes[s].span.parent_span_id IN
        (parent # None /\ parent[1] \in DOMAIN nodes /\ parent[1] \in Visited(Self)) =>
            /\ s \in nodes[parent[1]].children
            /\ s \in Visited(Self)

\* C15, amended: a NewSpan for X, ingested while a known span S # X that
\* names X as its parent waits for it, creates X with S not among its
\* children, and the traversal from roots visits S after it exactly if it
\* did before; S becomes a child of X only by a later NewSpan for S.
C15_ParentAppearingAdoptsNothing ==
    \A m \in NewSpanMsgs :
        LET X == m.span.id
            after == on_mesage(Self, m).tree
        IN  X \notin DOMAIN nodes =>
                \A S \in DOMAIN nodes :
                    nodes[S].span.parent_span_id = Some(X) =>
                        /\ S \notin after.nodes[X].children
                        /\ (S \in Visited(after)) = (S \in Visited(Self))
                        /\ \A again \in NewSpanMsgs :
                               (again.span.id = S /\ again.span.parent_span_id = Some(X)) =>
                                   S \in on_mesage(after, again).tree.nodes[X].children

\* Span 1 was created with the then unknown parent 2, and span 2 was created
\* after it as a root: span 2 has no child and the traversal misses span 1.
C15_Witness ==
    /\ DOMAIN nodes = {1, 2}
    /\ nodes[1].span.parent_span_id = Some(2)
    /\ roots = {2}
    /\ nodes[2].children = {}
    /\ Visited(Self) = {2}

\* What ingesting m does to the event list of span s, when the list was
\* `list` or, s being unknown so far, absent.
EventsAfter(m, s, known, list) ==
    IF m.kind = "NewSpan" /\ m.span.id = s THEN <<>>
    ELSE IF m.kind = "DataEvent" /\ m.event.parent_span_id = Some(s) /\ known
    THEN Append(list, <<m.log_time, m.event>>)
    ELSE list

\* What ingesting m does to the orphan list.
OrphansAfter(m, list) ==
    IF m.kind = "DataEvent" /\ m.event.parent_span_id = None
    THEN Append(list, <<m.log_time, m.event>>)
    ELSE list

\* C16: events are recorded in delivery order.  In every reachable tree
\* every message leaves each list as the claim's account of it requires: a
\* NewSpan for S starts the event list of S empty, a DataEvent with parent S
\* is added, with the message time, at the end of the list of S, a DataEvent
\* with no parent at the end of the orphan list, and no other message changes
\* a list.
C16_EventsInDeliveryOrder ==
    \A m \in Messages :
        LET after == on_mesage(Self, m).tree IN
        /\ after.orphan_events = OrphansAfter(m, orphan_events)
        /\ \A s \in DOMAIN after.nodes :
               after.nodes[s].events =
                   EventsAfter(m, s, s \in DOMAIN nodes,
                               IF s \in DOMAIN nodes THEN nodes[s].events ELSE <<>>)

\* Span 1 holds an event and the orphan list holds one, so that an event
\* arriving at another time shows where in the list it is put.
C16_Witness ==
    /\ 1 \in DOMAIN nodes
    /\ Len(nodes[1].events) = 1
    /\ Len(orphan_events) = 1

\* C17: an ExitSpan at time t for a known span whose interval list is empty,
\* or whose last interval has an end, appends the interval with no start and
\* the end t and leaves every interval there was as it was; nothing else in
\* the tree changes.
C17_UnmatchedExitAppended ==
    \A m \in ExitSpanMsgs :
        LET s == m.span_id IN
        (s \in DOMAIN nodes /\ Len(nodes[s].intervals) \notin Open(nodes[s])) =>
            LET out == on_mesage(Self, m) IN
            /\ out.tree.nodes[s].intervals =
                   Append(nodes[s].intervals, TimeInterval(None, Some(m.log_time)))
            /\ out.tree = [Self EXCEPT !.nodes[s].intervals = out.tree.nodes[s].intervals]
            /\ out.warnings = <<"Exited span that was never opened">>

\* An ExitSpan has just been absorbed by span 1, whose earlier interval was
\* entered, exited and kept.
C17_Witness ==
    /\ 1 \in DOMAIN nodes
    /\ warnings = <<"Exited span that was never opened">>
    /\ Len(nodes[1].intervals) = 2
    /\ nodes[1].intervals[1] = TimeInterval(Some(1), Some(1))
    /\ nodes[1].intervals[2] = TimeInterval(None, Some(1))

\* C18: referential integrity.  Every id in roots and every id in the
\* children set of a node is a key of nodes, so that tree_node_ui never
\* comes to its "Missing span" branch.
C18_RootsAndChildrenKnown ==
    /\ roots \subseteq DOMAIN nodes
    /\ \A p \in DOMAIN nodes : nodes[p].children \subseteq DOMAIN nodes

\* Span 1 is a root and has span 2 as a child, and span 2 has been created
\* once more since.
C18_Witness ==
    /\ roots = {1}
    /\ DOMAIN nodes = {1, 2}
    /\ nodes[1].children = {2}
    /\ warnings = <<"Reused span id">>

\* The descent of tree_node_ui_impl from span_id: it returns unless it comes
\* `fuel` levels deep, which it does only by meeting some id twice on one
\* path, and then, the tree being the same, it descends for ever.
RECURSIVE Descends(_, _, _)
Descends(self, span_id, fuel) ==
    IF span_id \notin DOMAIN self.nodes THEN TRUE
    ELSE IF fuel = 0 THEN FALSE
    ELSE \A child \in self.nodes[span_id].children : Descends(self, child, fuel - 1)

\* SpanTree::tree_ui returns.
TreeUiTerminates(self) == \A root \in self.roots : Descends(self, root, Cardinality(SpanIds))

\* The ids reached from span_id through children sets, in one step or more.
RECURSIVE Below(_, _, _)
Below(self, todo, seen) ==
    IF todo = {} THEN seen
    ELSE LET s == CHOOSE x \in todo : TRUE
             next == IF s \in DOMAIN self.nodes THEN self.nodes[s].children ELSE {}
         IN  Below(self, (todo \ {s}) \cup (next \ seen), seen \cup next)

\* C19: the children relation is acyclic: no span is in its own children set
\* or is reached from itself through children sets, and the traversal from
\* roots through children returns.
C19_ChildrenAcyclic ==
    /\ \A s \in DOMAIN nodes : s \notin Below(Self, {s}, {})
    /\ TreeUiTerminates(Self)

\* ------------------------------------------- claims on the websocket client

\* C20: on_event is called with the messages in the order the socket
\* delivered them to onmessage_callback: of any two Message events handed
\* over, the one received earlier is handed over first.
C20_HandedOverInReceiveOrder ==
    \A i, j \in DOMAIN events :
        (i < j /\ events[i].event = "Message" /\ events[j].event = "Message") =>
            events[i].seq < events[j].seq

====
